---- MODULE Spec2Model ----
(***************************************************************************)
(* Model of the HSN tariff pipeline of nv-mldev/cargoa:                    *)
(*   tools/clean_norm.py        compute_hierarchy_levels  (level assigner) *)
(*   tools/excel_to_hierarchy.py build_hierarchy          (forest builder) *)
(*   tools/json_flatten.py      flatten_hsn_json_with_inherited            *)
(*                                                                         *)
(* Python values are tagged records: a str is the sequence of its          *)
(* characters, a number is an integer, NaN and None are their own tags.    *)
(* Cell text is kept character by character so that strip(), lower(),      *)
(* startswith(), re.fullmatch() and whitespace removal are computed, not   *)
(* assumed.                                                                *)
(***************************************************************************)
EXTENDS Integers, Sequences, FiniteSets, TLC

VARIABLES
    src_df,       \* compute_hierarchy_levels: the caller's table
    lvl_df,       \* compute_hierarchy_levels: the local copy it works on
    lvl_pc,       \* compute_hierarchy_levels: which pass has run
    in_rows,      \* build_hierarchy: the caller's rows, as supplied, read so far
    df,           \* build_hierarchy: the same rows of the caller's table after
                  \* line 29 rewrote its hs_code column in place (the loop's view)
    nodes,        \* build_hierarchy: the node dicts, in creation order
    root,         \* build_hierarchy: the root list (indices into nodes)
    level_nodes,  \* build_hierarchy: depth -> index of the open node
    docs,         \* flatten: the returned list of flat records
    visited,      \* flatten: the node of each record of docs (index into nodes)
    pc,           \* build/flatten: "idle", "build", "key_error", "built", "flat",
                  \* "raised"
    pool,         \* the table under build: the rows it may hold, its longest length
    trk_pc,       \* tracking job: "idle", "get_ref", "insert", "call_poll",
                  \* "name_error", "poll", "poll_done", "poll_giveup"
    trk_tries,    \* get_valid_reference_id: failed requests so far (capped)
    trk_ref,      \* the reference_id obtained or passed in
    trk_retries,  \* poll_vizion_api: retries
    trk_requests, \* poll_vizion_api: requests.get calls made
    collection,   \* the tracking_data collection: the records stored, in order
    mail_pc,      \* email listener: "idle", "start", "exit", "fetch", "handle",
                  \* "sleep", "sleep_error"
    mail_msgs,    \* main: unread_messages of the current poll
    mail_i,       \* main: index of the message the for loop handles next
    mail_read,    \* the mailbox: ids of the messages marked as read
    mail_polls    \* main: polls started so far (capped)

trkVars == <<trk_pc, trk_tries, trk_ref, trk_retries, trk_requests, collection>>
mailVars == <<mail_pc, mail_msgs, mail_i, mail_read, mail_polls>>
jobVars == <<trkVars, mailVars>>
vars ==
    <<src_df, lvl_df, lvl_pc, in_rows, df, nodes, root, level_nodes, docs, visited, pc,
      pool, jobVars>>
lvlVars == <<src_df, lvl_df, lvl_pc>>
bldVars == <<in_rows, df, nodes, root, level_nodes, docs, visited, pc, pool>>

(***************************************************************************)
(* Bounds                                                                  *)
(***************************************************************************)
MaxHyphens == 3     \* longest hyphen run among the raw level markers
MaxLevelRows == 1   \* rows of a table given to compute_hierarchy_levels
MaxRows == 4        \* rows of a table given to build_hierarchy (structure)
MaxDepth == 3       \* deepest level value of a structural row
MaxTextRows == 4    \* rows of a table given to build_hierarchy (cell text)
MaxMalformedRows == 3   \* rows of a malformed table
MaxChainRows == 5   \* rows of a table of chain rows and notes
MaxPolicyRows == 3  \* rows of a table with policy text columns
MaxNoteRows == 3    \* rows of a table of notes with and without text
MaxColRows == 2     \* rows of a table that lacks a configured column
MaxRefTries == 2    \* failed reference-id requests that are counted
MaxStored == 1      \* records in the collection before the job or the poll starts
MaxMsgs == 2        \* unread messages one fetch returns
MaxPolls == 2       \* polls of the email listener that are counted

(***************************************************************************)
(* Python values                                                           *)
(***************************************************************************)
Str(s) == [t |-> "str", v |-> s]
Num(n) == [t |-> "num", v |-> n]
NaN == [t |-> "nan", v |-> <<>>]
None == [t |-> "none", v |-> <<>>]

IsStr(x) == x.t = "str"
IsNum(x) == x.t = "num"

SetMin(S) == CHOOSE m \in S : \A k \in S : m <= k
SetMax(S) == CHOOSE m \in S : \A k \in S : m >= k

\* str.isspace on one character
IsSpace(c) == c \in {" ", "\t", "\n"}

\* str.strip()
Strip(s) ==
    LET keep == {k \in 1..Len(s) : ~IsSpace(s[k])}
    IN  IF keep = {} THEN <<>> ELSE SubSeq(s, SetMin(keep), SetMax(keep))

LowerChar(c) ==
    CASE c = "A" -> "a" [] c = "B" -> "b" [] c = "C" -> "c" [] c = "D" -> "d"
      [] c = "E" -> "e" [] c = "F" -> "f" [] c = "G" -> "g" [] c = "H" -> "h"
      [] c = "I" -> "i" [] c = "J" -> "j" [] c = "K" -> "k" [] c = "L" -> "l"
      [] c = "M" -> "m" [] c = "N" -> "n" [] c = "O" -> "o" [] c = "P" -> "p"
      [] c = "Q" -> "q" [] c = "R" -> "r" [] c = "S" -> "s" [] c = "T" -> "t"
      [] c = "U" -> "u" [] c = "V" -> "v" [] c = "W" -> "w" [] c = "X" -> "x"
      [] c = "Y" -> "y" [] c = "Z" -> "z" [] OTHER -> c

\* str.lower()
Lower(s) == [k \in 1..Len(s) |-> LowerChar(s[k])]

\* str.startswith(prefix)
StartsWith(s, prefix) ==
    /\ Len(s) >= Len(prefix)
    /\ SubSeq(s, 1, Len(prefix)) = prefix

DigitChars == <<"0", "1", "2", "3", "4", "5", "6", "7", "8", "9">>
IsDigit(c) == \E k \in 1..Len(DigitChars) : DigitChars[k] = c

RECURSIVE NatStr(_)
NatStr(n) ==
    IF n < 10 THEN <<DigitChars[n + 1]>>
    ELSE NatStr(n \div 10) \o <<DigitChars[(n % 10) + 1]>>

\* str(x) / Series.astype(str) on one cell
PyStr(x) ==
    CASE x.t = "str" -> x.v
      [] x.t = "num" -> IF x.v < 0 THEN <<"-">> \o NatStr(0 - x.v) ELSE NatStr(x.v)
      [] x.t = "nan" -> <<"n", "a", "n">>
      [] OTHER -> <<"N", "o", "n", "e">>

\* Python truthiness of a cell (NaN is a non-zero float: truthy)
Truthy(x) ==
    CASE x.t = "str" -> x.v # <<>>
      [] x.t = "num" -> x.v # 0
      [] x.t = "nan" -> TRUE
      [] OTHER -> FALSE

\* re.fullmatch(r"-+", s)
FullMatchHyphens(s) == Len(s) >= 1 /\ \A k \in 1..Len(s) : s[k] = "-"

\* re.fullmatch(r"\d{4}", s)
FullMatch4Digits(s) == Len(s) = 4 /\ \A k \in 1..Len(s) : IsDigit(s[k])

Hyphens(n) == [k \in 1..n |-> "-"]

S_chapter == <<"c", "h", "a", "p", "t", "e", "r">>
S_Tariff == <<"T", "a", "r", "i", "f", "f">>
S_notes == <<"n", "o", "t", "e", "s">>

(***************************************************************************)
(* compute_hierarchy_levels (tools/clean_norm.py)                          *)
(***************************************************************************)
LvlDescs ==
    { Str(<<"C", "h", "a", "p", "t", "e", "r", " ", "1">>),
      Str(<<" ", "C", "H", "A", "P", "T", "E", "R">>),
      Str(<<"S", "a", "l", "t">>),
      NaN }

LvlMarkers ==
    {Str(Hyphens(n)) : n \in 1..MaxHyphens}
        \cup {Str(<<" ", "-", "-">>), Str(<<"-", "x">>), NaN}

LvlRemarks ==
    { Str(S_Tariff), Str(<<"t", "a", "r", "i", "f", "f">>), Str(<<"N", "o", "t", "e", "s">>) }

LvlCodes ==
    { Str(<<"2", "5", "0", "1">>), Num(2501), Str(<<"2", "5", "0", "1", "1", "0">>) }

LvlRows ==
    [item_description : LvlDescs, level : LvlMarkers, remark : LvlRemarks, hs_code : LvlCodes]

LvlTables == UNION {[1..n -> LvlRows] : n \in 1..MaxLevelRows}

\* def seed_level(row)
seed_level_hyphens_first(row) ==
    LET desc == Lower(Strip(PyStr(IF Truthy(row.item_description)
                                  THEN row.item_description ELSE Str(<<>>))))
        raw == row.raw_level
    IN  IF IsStr(raw) /\ FullMatchHyphens(Strip(raw.v)) THEN Num(Len(Strip(raw.v)))
        ELSE IF StartsWith(desc, S_chapter) THEN Num(0)
        ELSE NaN

seed_level_default0(row) ==
    LET desc == Lower(Strip(PyStr(IF Truthy(row.item_description)
                                  THEN row.item_description ELSE Str(<<>>))))
        raw == row.raw_level
    IN  IF StartsWith(desc, S_chapter) THEN Num(0)
        ELSE IF IsStr(raw) /\ FullMatchHyphens(Strip(raw.v)) THEN Num(Len(Strip(raw.v)))
        ELSE Num(0)

seed_level(row) ==
    LET desc == Lower(Strip(PyStr(IF Truthy(row.item_description)
                                  THEN row.item_description ELSE Str(<<>>))))
        raw == row.raw_level
    IN  IF StartsWith(desc, S_chapter) THEN Num(0)
        ELSE IF IsStr(raw) /\ FullMatchHyphens(Strip(raw.v)) THEN Num(Len(Strip(raw.v)))
        ELSE NaN

\* is_tariff = df["remark"].astype(str).eq("Tariff")
is_tariff(row) == PyStr(row.remark) = S_Tariff

\* mask_4d = is_tariff & df["hs_code"].astype(str).str.fullmatch(r"\d{4}")
mask_4d(row) == is_tariff(row) /\ FullMatch4Digits(PyStr(row.hs_code))

\* mask_hyph = is_tariff & df["raw_level"].astype(str).str.fullmatch(r"-+")
mask_hyph(row) == is_tariff(row) /\ FullMatchHyphens(PyStr(row.raw_level))

\* lambda s: len(s.strip()) + 1
hyph_level_no_plus(s) == Num(Len(Strip(s)))

hyph_level(s) == Num(Len(Strip(s)) + 1)

\* mask_other = is_tariff & ~mask_4d & ~mask_hyph
mask_other_any_row(row) == ~mask_4d(row) /\ ~mask_hyph(row)

mask_other(row) == is_tariff(row) /\ ~mask_4d(row) /\ ~mask_hyph(row)

SetLevel(row, lv) == [row EXCEPT !.level = lv]

\* df = df.copy(); df["raw_level"] = df["level"]
LvlCopy ==
    /\ lvl_pc = "call"
    /\ lvl_df' = [k \in 1..Len(src_df) |->
                    [item_description |-> src_df[k].item_description,
                     level |-> src_df[k].level,
                     remark |-> src_df[k].remark,
                     hs_code |-> src_df[k].hs_code,
                     raw_level |-> src_df[k].level]]
    /\ lvl_pc' = "copied"
    /\ UNCHANGED <<src_df, bldVars, jobVars>>

\* df["level"] = df.apply(seed_level, axis=1)
LvlSeed ==
    /\ lvl_pc = "copied"
    /\ lvl_df' = [k \in 1..Len(lvl_df) |-> SetLevel(lvl_df[k], seed_level(lvl_df[k]))]
    /\ lvl_pc' = "seeded"
    /\ UNCHANGED <<src_df, bldVars, jobVars>>

\* df.loc[mask_4d, "level"] = 1
LvlOverride4d ==
    /\ lvl_pc = "seeded"
    /\ lvl_df' = [k \in 1..Len(lvl_df) |->
                    IF mask_4d(lvl_df[k]) THEN SetLevel(lvl_df[k], Num(1)) ELSE lvl_df[k]]
    /\ lvl_pc' = "a"
    /\ UNCHANGED <<src_df, bldVars, jobVars>>

\* df.loc[mask_hyph, "level"] = df.loc[mask_hyph, "raw_level"].apply(...)
LvlOverrideHyph ==
    /\ lvl_pc = "a"
    /\ lvl_df' = [k \in 1..Len(lvl_df) |->
                    IF mask_hyph(lvl_df[k])
                    THEN SetLevel(lvl_df[k], hyph_level(lvl_df[k].raw_level.v))
                    ELSE lvl_df[k]]
    /\ lvl_pc' = "b"
    /\ UNCHANGED <<src_df, bldVars, jobVars>>

\* df.loc[mask_other, "level"] = 1; return df
LvlOverrideOther ==
    /\ lvl_pc = "b"
    /\ lvl_df' = [k \in 1..Len(lvl_df) |->
                    IF mask_other(lvl_df[k]) THEN SetLevel(lvl_df[k], Num(1)) ELSE lvl_df[k]]
    /\ lvl_pc' = "done"
    /\ UNCHANGED <<src_df, bldVars, jobVars>>

BldIdle ==
    /\ in_rows = <<>>
    /\ df = <<>>
    /\ nodes = <<>>
    /\ root = <<>>
    /\ level_nodes = <<>>
    /\ docs = <<>>
    /\ visited = <<>>
    /\ pc = "idle"
    /\ pool = [rows |-> {}, max |-> 0, cols |-> {}]

\* the tracking job and the email listener are not running
TrkIdle ==
    /\ trk_pc = "idle"
    /\ trk_tries = 0
    /\ trk_ref = None
    /\ trk_retries = 0
    /\ trk_requests = 0
    /\ collection = <<>>

MailIdle ==
    /\ mail_pc = "idle"
    /\ mail_msgs = <<>>
    /\ mail_i = 0
    /\ mail_read = {}
    /\ mail_polls = 0

InitLevels ==
    /\ src_df \in LvlTables
    /\ lvl_df = <<>>
    /\ lvl_pc = "call"
    /\ BldIdle
    /\ TrkIdle
    /\ MailIdle

NextLevels ==
    \/ LvlCopy
    \/ LvlSeed
    \/ LvlOverride4d
    \/ LvlOverrideHyph
    \/ LvlOverrideOther

SpecLevels == InitLevels /\ [][NextLevels]_vars

(***************************************************************************)
(* Properties of compute_hierarchy_levels                                  *)
(***************************************************************************)
\* the description, trimmed and lower-cased, starts with "chapter"
IsChapterDesc(row) ==
    /\ IsStr(row.item_description)
    /\ StartsWith(Lower(Strip(row.item_description.v)), S_chapter)

\* the raw marker is a string made of hyphens only, at least one
PureRun(raw) == IsStr(raw) /\ Len(raw.v) >= 1 /\ raw.v = Hyphens(Len(raw.v))

\* the raw marker, with surrounding whitespace removed, is a pure run
TrimmedPureRun(raw) == IsStr(raw) /\ PureRun(Str(Strip(raw.v)))

IsTariffRemark(row) == row.remark = Str(S_Tariff)

Has4DigitCode(row) == FullMatch4Digits(PyStr(row.hs_code))

LvlDone == lvl_pc = "done"
LvlSeeded == lvl_pc \in {"seeded", "a", "b", "done"}
LvlIdx == 1..Len(lvl_df)

\* C2 (as claimed): after compute_hierarchy_levels every 'Tariff' row with a
\* 4-digit hs_code has level 1, whatever its raw marker is.
C2_Tariff4DigitLevel1 ==
    LvlDone =>
        \A k \in LvlIdx :
            (IsTariffRemark(lvl_df[k]) /\ Has4DigitCode(lvl_df[k]))
                => lvl_df[k].level = Num(1)

\* C3 (as claimed): after compute_hierarchy_levels every row whose description
\* starts with "chapter" has level 0, for every remark, hs_code and marker.
C3_ChapterLevel0 ==
    LvlDone =>
        \A k \in LvlIdx : IsChapterDesc(lvl_df[k]) => lvl_df[k].level = Num(0)

\* C3 (amended): after compute_hierarchy_levels every row whose description
\* starts with "chapter" and whose remark is not 'Tariff' has level 0, for
\* every hs_code and raw marker.
C3_ChapterNonTariffLevel0 ==
    LvlDone =>
        \A k \in LvlIdx :
            (IsChapterDesc(lvl_df[k]) /\ ~IsTariffRemark(lvl_df[k]))
                => lvl_df[k].level = Num(0)

\* a finished run with a non-tariff chapter row that also carries a hyphen run
C3_Witness ==
    /\ LvlDone
    /\ \E k \in LvlIdx :
        /\ IsChapterDesc(lvl_df[k])
        /\ ~IsTariffRemark(lvl_df[k])
        /\ PureRun(lvl_df[k].raw_level)
        /\ lvl_df[k].level = Num(0)

\* C4: a 'Tariff' row without a 4-digit code has level n + 1 when its raw
\* marker is a pure run of n hyphens, and level 1 when it is no pure run.
C4_TariffHyphenLevel ==
    LvlDone =>
        \A k \in LvlIdx :
            (IsTariffRemark(lvl_df[k]) /\ ~Has4DigitCode(lvl_df[k])) =>
                IF PureRun(lvl_df[k].raw_level)
                THEN lvl_df[k].level = Num(Len(lvl_df[k].raw_level.v) + 1)
                ELSE lvl_df[k].level = Num(1)

\* a finished run with a 'Tariff' row without a 4-digit code, marker "---",
\* level 4
C4_Witness ==
    /\ LvlDone
    /\ \E k \in LvlIdx :
        /\ IsTariffRemark(lvl_df[k])
        /\ ~Has4DigitCode(lvl_df[k])
        /\ lvl_df[k].raw_level = Str(<<"-", "-", "-">>)
        /\ lvl_df[k].level = Num(4)

\* the seed level as the claim words it, with the marker taken as it stands
ClaimedSeed(row) ==
    IF IsChapterDesc(row) THEN Num(0)
    ELSE IF PureRun(row.raw_level) THEN Num(Len(row.raw_level.v))
    ELSE NaN

\* the seed level with the marker trimmed of surrounding whitespace
TrimmedSeed(row) ==
    IF IsChapterDesc(row) THEN Num(0)
    ELSE IF TrimmedPureRun(row.raw_level) THEN Num(Len(Strip(row.raw_level.v)))
    ELSE NaN

\* C5 (as claimed): once seeded, a row whose remark is not 'Tariff' has level
\* 0 if chapter, else n if its raw marker is a pure run of n hyphens, else
\* unset, through every override pass.
C5_NonTariffKeepsSeed ==
    LvlSeeded =>
        \A k \in LvlIdx :
            ~IsTariffRemark(lvl_df[k]) => lvl_df[k].level = ClaimedSeed(lvl_df[k])

\* C5 (amended): once seeded, a row whose remark is not 'Tariff' has level 0
\* if chapter, else n if its raw marker with surrounding whitespace removed is
\* a pure run of n hyphens, else unset; no override pass changes it.
C5_NonTariffKeepsTrimmedSeed ==
    LvlSeeded =>
        \A k \in LvlIdx :
            ~IsTariffRemark(lvl_df[k]) => lvl_df[k].level = TrimmedSeed(lvl_df[k])

\* a finished run with a non-tariff, non-chapter row, marker "--", level 2
C5_Witness ==
    /\ LvlDone
    /\ \E k \in LvlIdx :
        /\ ~IsTariffRemark(lvl_df[k])
        /\ ~IsChapterDesc(lvl_df[k])
        /\ lvl_df[k].raw_level = Str(<<"-", "-">>)
        /\ lvl_df[k].level = Num(2)

\* C6: after compute_hierarchy_levels a level is unset only on a row that is
\* no chapter header, has no pure hyphen run and is not 'Tariff'; a row with
\* none of the three (marker trimmed) stays unset, and level 0 is only ever
\* the level of a chapter header.
C6_UnsetOnlyUnclassified ==
    LvlDone =>
        \A k \in LvlIdx :
            /\ lvl_df[k].level = NaN =>
                  /\ ~IsChapterDesc(lvl_df[k])
                  /\ ~PureRun(lvl_df[k].raw_level)
                  /\ ~IsTariffRemark(lvl_df[k])
            /\ (/\ ~IsChapterDesc(lvl_df[k])
                /\ ~TrimmedPureRun(lvl_df[k].raw_level)
                /\ ~IsTariffRemark(lvl_df[k])) => lvl_df[k].level = NaN
            /\ lvl_df[k].level = Num(0) => IsChapterDesc(lvl_df[k])

\* a finished run that left a row's level unset
C6_Witness ==
    /\ LvlDone
    /\ \E k \in LvlIdx : lvl_df[k].level = NaN

(***************************************************************************)
(* build_hierarchy (tools/excel_to_hierarchy.py)                           *)
(*                                                                         *)
(* The table is read one row at a time by df.iterrows(); the model draws   *)
(* each row when the loop reaches it and ends the loop at any length up to *)
(* pool.max.  Nodes are kept in creation order and referred to by their    *)
(* index; 0 stands for "no node" (the root list as a parent, no target).   *)
(***************************************************************************)
Row(remark, level, hs_code, item_description) ==
    [remark |-> remark, level |-> level, hs_code |-> hs_code,
     item_description |-> item_description]

S_a == <<"A">>
S_12 == <<"1", "2">>

\* tables that differ in row type and level only
NoteRow == Row(Str(S_notes), NaN, NaN, Str(<<"n">>))
StructRows ==
    {Row(Str(S_Tariff), lv, Str(S_12), Str(S_a)) :
        lv \in {NaN} \cup {Num(d) : d \in 0..MaxDepth}}
BaseCols == {"remark", "level", "hs_code", "item_description"}
StructPool == [rows |-> StructRows \cup {NoteRow}, max |-> MaxRows, cols |-> BaseCols]

\* tables that differ in cell text: codes that differ by whitespace or type,
\* padded text, a blank separator row, notes with and without text
R_A == Row(Str(S_Tariff), Num(0), Str(S_12), Str(S_a))
R_B == Row(Str(S_Tariff), Num(1), Str(<<"1", " ", "2">>), Str(<<"B">>))
R_C == Row(Str(S_Tariff), Num(1), Str(<<"1", " ", "3">>), Str(<<" ", "C">>))
R_D == Row(Str(S_Tariff), Num(2), Num(12), Str(<<"D">>))
R_blank == Row(NaN, NaN, NaN, NaN)
N_1 == Row(Str(S_notes), NaN, NaN, Str(<<" ", "n", "1", " ">>))
N_2 == Row(Str(<<" ", "N", "o", "t", "e", "s">>), NaN, NaN, Str(<<"n", "2">>))
N_nan == Row(Str(S_notes), NaN, NaN, NaN)
TextPool ==
    [rows |-> {R_A, R_B, R_C, R_D, R_blank, N_1, N_2, N_nan}, max |-> MaxTextRows,
     cols |-> BaseCols]

\* malformed row sequences: a negative level, levels that skip, notes anywhere
MalformedPool ==
    [rows |-> {Row(Str(S_Tariff), Num(d), Str(S_12), Str(S_a)) : d \in {-1, 0, 1, 2}}
                \cup {NoteRow},
     max |-> MaxMalformedRows, cols |-> BaseCols]

\* a chain of levels 0, 1, 2 with distinct codes and texts, and two notes
C_A == Row(Str(S_Tariff), Num(0), Str(<<"1">>), Str(S_a))
C_B == Row(Str(S_Tariff), Num(1), Str(<<"2">>), Str(<<"B">>))
C_C == Row(Str(S_Tariff), Num(2), Str(<<"3">>), Str(<<"C">>))
N_x == Row(Str(S_notes), NaN, NaN, Str(<<"x">>))
N_y == Row(Str(S_notes), NaN, NaN, Str(<<"y">>))
ChainPool == [rows |-> {C_A, C_B, C_C, N_x, N_y}, max |-> MaxChainRows, cols |-> BaseCols]

\* tables with the policy text columns that attach_policy_links adds: a text,
\* the empty text, or None
PolicyRow(level, hs_code, item_description, import_policy_text, export_policy_text) ==
    [remark |-> Str(S_Tariff), level |-> level, hs_code |-> hs_code,
     item_description |-> item_description,
     import_policy_text |-> import_policy_text,
     export_policy_text |-> export_policy_text]

P_A == PolicyRow(Num(0), Str(<<"1">>), Str(S_a), Str(<<"f">>), Str(<<>>))
P_B == PolicyRow(Num(1), Str(<<"2">>), Str(<<"B">>), None, Str(<<"r">>))
P_B2 == PolicyRow(Num(1), Str(<<"2">>), Str(<<"B">>), Str(<<"p">>), None)
P_C == PolicyRow(Num(2), Str(<<"3">>), Str(<<"C">>), None, None)
P_C2 == PolicyRow(Num(2), Str(<<"3">>), Str(<<"C">>), Str(<<"o">>), Str(<<>>))
PolicyPool ==
    [rows |-> {P_A, P_B, P_B2, P_C, P_C2}, max |-> MaxPolicyRows,
     cols |-> BaseCols \cup {"import_policy_text", "export_policy_text"}]

\* note rows whose text cell is empty, blank, None or NaN
N_empty == Row(Str(S_notes), NaN, NaN, Str(<<>>))
N_spaces == Row(Str(S_notes), NaN, NaN, Str(<<" ", " ">>))
N_none == Row(Str(S_notes), NaN, NaN, None)
NoteTextPool ==
    [rows |-> {R_A, N_1, N_empty, N_spaces, N_none, N_nan}, max |-> MaxNoteRows,
     cols |-> BaseCols]

\* tables that lack configured columns: level and remark, the note text
\* column, hs_code
NoLevelRemarkPool ==
    [rows |-> {[hs_code |-> Str(S_12), item_description |-> Str(S_a)],
               [hs_code |-> Str(<<"1", " ", "2">>), item_description |-> Str(S_notes)]},
     max |-> MaxColRows, cols |-> {"hs_code", "item_description"}]
NoNoteColPool ==
    [rows |-> {[remark |-> Str(S_Tariff), level |-> Num(0), hs_code |-> Str(S_12)],
               [remark |-> Str(S_Tariff), level |-> Num(1), hs_code |-> Str(S_12)],
               [remark |-> Str(S_notes), level |-> NaN, hs_code |-> NaN]},
     max |-> MaxColRows, cols |-> {"remark", "level", "hs_code"}]
NoCodePool ==
    [rows |-> {[remark |-> Str(S_Tariff), level |-> Num(0), item_description |-> Str(S_a)]},
     max |-> MaxColRows, cols |-> {"remark", "level", "item_description"}]

Pools ==
    {StructPool, TextPool, MalformedPool, ChainPool, PolicyPool, NoteTextPool,
     NoLevelRemarkPool, NoNoteColPool, NoCodePool}

\* re.sub(r"\s+", "", s)
RECURSIVE RemoveWs(_)
RemoveWs(s) ==
    IF s = <<>> THEN <<>>
    ELSE IF IsSpace(Head(s)) THEN RemoveWs(Tail(s))
    ELSE <<Head(s)>> \o RemoveWs(Tail(s))

\* df[hs_code_col] = df[hs_code_col].astype(str).str.replace(r"\s+", "", regex=True)
NormRow(row) == [row EXCEPT !.hs_code = Str(RemoveWs(PyStr(row.hs_code)))]

\* note_text_cols = ["item_description"]
note_text_cols == <<"item_description">>

\* row.get(col, default)
RowGet(row, col, default) == IF col \in DOMAIN row THEN row[col] ELSE default

\* remark = str(row.get(remark_col, "")).strip().lower(); remark != "notes"
IsNodeRow(row) == Lower(Strip(PyStr(RowGet(row, "remark", Str(<<>>))))) # S_notes

\* depth = int(raw_lvl) if pd.notna(raw_lvl) and isinstance(raw_lvl, (int, float)) else 0
\* (the level numbers of the model are whole, so int() keeps them)
PyDepth(raw_lvl) == IF IsNum(raw_lvl) THEN raw_lvl.v ELSE 0

\* node[col] = None if isinstance(val, float) and np.isnan(val) else val
NodeVal(val) == IF val = NaN THEN None ELSE val

\* the node dict of a row
MakeNode(row) ==
    [col \in DOMAIN row \cup {"notes", "children"} |->
        IF col \in {"notes", "children"} THEN <<>> ELSE NodeVal(row[col])]

\* the node the new node is appended under; 0: the root list
parent_for_min(depth) ==
    IF depth = 0 THEN 0
    ELSE LET ancestors == {d \in DOMAIN level_nodes : d < depth}
         IN  IF ancestors # {} THEN level_nodes[SetMin(ancestors)] ELSE 0

parent_for_not_deeper(depth) ==
    IF depth = 0 THEN 0
    ELSE LET ancestors == {d \in DOMAIN level_nodes : d <= depth}
         IN  IF ancestors # {} THEN level_nodes[SetMax(ancestors)] ELSE 0

parent_for_exact(depth) ==
    IF depth = 0 THEN 0
    ELSE LET ancestors == {d \in DOMAIN level_nodes : d = depth - 1}
         IN  IF ancestors # {} THEN level_nodes[SetMax(ancestors)] ELSE 0

parent_for(depth) ==
    IF depth = 0 THEN 0
    ELSE LET ancestors == {d \in DOMAIN level_nodes : d < depth}
         IN  IF ancestors # {} THEN level_nodes[SetMax(ancestors)] ELSE 0

\* the node a note row is attached to; 0: the note is dropped
note_target_any_open ==
    IF 1 \in DOMAIN level_nodes THEN level_nodes[1]
    ELSE IF 0 \in DOMAIN level_nodes THEN level_nodes[0]
    ELSE IF DOMAIN level_nodes # {} THEN level_nodes[SetMin(DOMAIN level_nodes)]
    ELSE 0

note_target_zero_first ==
    IF 0 \in DOMAIN level_nodes THEN level_nodes[0]
    ELSE IF 1 \in DOMAIN level_nodes THEN level_nodes[1]
    ELSE 0

note_target ==
    IF 1 \in DOMAIN level_nodes THEN level_nodes[1]
    ELSE IF 0 \in DOMAIN level_nodes THEN level_nodes[0]
    ELSE 0

\* the texts a note row appends: one per note column present and not NaN
RECURSIVE NoteTexts(_, _)
NoteTexts(row, cols) ==
    IF cols = <<>> THEN <<>>
    ELSE LET col == Head(cols)
             rest == NoteTexts(row, Tail(cols))
         IN  IF col \in DOMAIN row /\ row[col] # NaN
             THEN <<Strip(PyStr(row[col]))>> \o rest
             ELSE rest

\* df[hs_code_col] raises KeyError when the table has no such column
HasCodeCol == "hs_code" \in pool.cols

\* target["notes"].append(...) for each text, on the target node only
AppendNotes_to_all(ns, target, texts) ==
    [n \in DOMAIN ns |-> [ns[n] EXCEPT !.notes = @ \o texts]]

AppendNotes(ns, target, texts) == [ns EXCEPT ![target].notes = @ \o texts]

Building == pc = "build" /\ HasCodeCol /\ Len(df) < pool.max

\* loop body, remark != "notes"
BuildNodeRow(row) ==
    /\ Building
    /\ IsNodeRow(NormRow(row))
    /\ LET r == NormRow(row)
           depth == PyDepth(RowGet(r, "level", None))
           idx == Len(nodes) + 1
           parent == parent_for(depth)
       IN  /\ nodes' =
                IF parent = 0 THEN Append(nodes, MakeNode(r))
                ELSE Append([nodes EXCEPT ![parent].children = Append(@, idx)],
                            MakeNode(r))
           /\ root' = IF parent = 0 THEN Append(root, idx) ELSE root
           /\ level_nodes' = [d \in DOMAIN level_nodes \cup {depth} |->
                                IF d = depth THEN idx ELSE level_nodes[d]]
           /\ df' = Append(df, r)
    /\ in_rows' = Append(in_rows, row)
    /\ UNCHANGED <<docs, visited, pc, pool, lvlVars, jobVars>>

\* loop body, remark == "notes"
BuildNoteRow(row) ==
    /\ Building
    /\ ~IsNodeRow(NormRow(row))
    /\ LET r == NormRow(row)
           target == note_target
       IN  /\ nodes' =
                IF target = 0 THEN nodes
                ELSE AppendNotes(nodes, target, NoteTexts(r, note_text_cols))
           /\ df' = Append(df, r)
    /\ in_rows' = Append(in_rows, row)
    /\ UNCHANGED <<root, level_nodes, docs, visited, pc, pool, lvlVars, jobVars>>

\* df[hs_code_col] raises KeyError before the first row is read
BuildKeyError ==
    /\ pc = "build"
    /\ ~HasCodeCol
    /\ pc' = "key_error"
    /\ UNCHANGED <<in_rows, df, nodes, root, level_nodes, docs, visited, pool, lvlVars, jobVars>>

\* the table is exhausted: return root
BuildReturn ==
    /\ pc = "build"
    /\ HasCodeCol
    /\ pc' = "built"
    /\ UNCHANGED <<in_rows, df, nodes, root, level_nodes, docs, visited, pool, lvlVars, jobVars>>

(***************************************************************************)
(* flatten_hsn_json_with_inherited (tools/json_flatten.py)                 *)
(*                                                                         *)
(* main.py writes the forest with json.dump and the flattener reads it     *)
(* back with json.load: str, int, None, lists and nesting come back as     *)
(* written, so the flattener walks the builder's nodes.                    *)
(***************************************************************************)
\* dict.get(key)
Get(node, key) == IF key \in DOMAIN node THEN node[key] ELSE None

S_sep == <<" ", ">", " ">>

\* " > ".join(path), path a non-empty list of str
RECURSIVE Join(_)
Join(path) ==
    IF Len(path) = 1 THEN Head(path).v
    ELSE Head(path).v \o S_sep \o Join(Tail(path))

\* inherited_notes: the notes of every ancestor with level in (0, 1)
RECURSIVE InheritedNotes_parent_first(_)
InheritedNotes_parent_first(ancestors) ==
    IF ancestors = <<>> THEN <<>>
    ELSE LET anc == nodes[ancestors[Len(ancestors)]]
         IN  (IF Get(anc, "level") \in {Num(0), Num(1)} THEN Get(anc, "notes") ELSE <<>>)
                \o InheritedNotes_parent_first(SubSeq(ancestors, 1, Len(ancestors) - 1))

RECURSIVE InheritedNotes(_)
InheritedNotes(ancestors) ==
    IF ancestors = <<>> THEN <<>>
    ELSE LET anc == nodes[Head(ancestors)]
         IN  (IF Get(anc, "level") \in {Num(0), Num(1)} THEN Get(anc, "notes") ELSE <<>>)
                \o InheritedNotes(Tail(ancestors))

\* for anc in reversed(ancestors): first truthy anc.get(key), else the own value
RECURSIVE InheritPolicy_root_first(_, _, _)
InheritPolicy_root_first(own, ancestors, key) ==
    IF Truthy(own) \/ ancestors = <<>> THEN own
    ELSE LET anc == nodes[Head(ancestors)]
         IN  IF Truthy(Get(anc, key)) THEN Get(anc, key)
             ELSE InheritPolicy_root_first(own, Tail(ancestors), key)

RECURSIVE InheritPolicy(_, _, _)
InheritPolicy(own, ancestors, key) ==
    IF Truthy(own) \/ ancestors = <<>> THEN own
    ELSE LET anc == nodes[ancestors[Len(ancestors)]]
         IN  IF Truthy(Get(anc, key)) THEN Get(anc, key)
             ELSE InheritPolicy(own, SubSeq(ancestors, 1, Len(ancestors) - 1), key)

\* "id": node.get("hs_code")
DocId_from_parent(n, ancestors) ==
    IF ancestors = <<>> THEN Get(nodes[n], "hs_code")
    ELSE Get(nodes[ancestors[Len(ancestors)]], "hs_code")

DocId(n, ancestors) == Get(nodes[n], "hs_code")

\* path = [anc.get("item_description") for anc in ancestors] + [node.get(...)]
Path(n, ancestors) ==
    [k \in 1..Len(ancestors) |-> Get(nodes[ancestors[k]], "item_description")]
        \o <<Get(nodes[n], "item_description")>>

\* str.join raises TypeError on an item that is not a str
JoinRaises(path) == \E k \in 1..Len(path) : ~IsStr(path[k])

\* parent = ancestors[-1] if ancestors else None; 0: no parent
ParentOf_first(ancestors) == IF ancestors = <<>> THEN 0 ELSE ancestors[1]

ParentOf(ancestors) == IF ancestors = <<>> THEN 0 ELSE ancestors[Len(ancestors)]

\* the flat record of node n under its ancestor chain
Doc(n, ancestors) ==
    LET parent == ParentOf(ancestors)
    IN  [id |-> DocId(n, ancestors),
         text |-> Get(nodes[n], "item_description"),
         level |-> Get(nodes[n], "level"),
         parent_id |-> IF parent = 0 THEN None ELSE Get(nodes[parent], "hs_code"),
         parent_text |-> IF parent = 0 THEN None
                         ELSE Get(nodes[parent], "item_description"),
         breadcrumb |-> Str(Join(Path(n, ancestors))),
         notes |-> Get(nodes[n], "notes") \o InheritedNotes(ancestors),
         remark |-> Get(nodes[n], "remark"),
         import_policy |->
            InheritPolicy(Get(nodes[n], "import_policy_text"), ancestors,
                          "import_policy_text"),
         export_policy |->
            InheritPolicy(Get(nodes[n], "export_policy_text"), ancestors,
                          "export_policy_text")]

\* docs.append({...}) comes before the loop over node["children"]
Visit_children_first(own, below) == below \o <<own>>

Visit(own, below) == <<own>> \o below

\* traverse(node, ancestors) and the loops that call it: the records appended
\* to docs and the nodes they were made from, or raised when a join raised on
\* the way
RECURSIVE traverse(_, _), TraverseAll(_, _)
traverse(n, ancestors) ==
    IF JoinRaises(Path(n, ancestors))
    THEN [raised |-> TRUE, docs |-> <<>>, visited |-> <<>>]
    ELSE LET below == TraverseAll(Get(nodes[n], "children"), ancestors \o <<n>>)
         IN  [raised |-> below.raised,
              docs |-> Visit(Doc(n, ancestors), below.docs),
              visited |-> Visit(n, below.visited)]

TraverseAll(list, ancestors) ==
    IF list = <<>> THEN [raised |-> FALSE, docs |-> <<>>, visited |-> <<>>]
    ELSE LET first == traverse(Head(list), ancestors)
         IN  IF first.raised THEN first
             ELSE LET rest == TraverseAll(Tail(list), ancestors)
                  IN  [raised |-> rest.raised,
                       docs |-> first.docs \o rest.docs,
                       visited |-> first.visited \o rest.visited]

\* flatten_hsn_json_with_inherited returns docs
Flatten ==
    /\ pc = "built"
    /\ ~TraverseAll(root, <<>>).raised
    /\ docs' = TraverseAll(root, <<>>).docs
    /\ visited' = TraverseAll(root, <<>>).visited
    /\ pc' = "flat"
    /\ UNCHANGED <<in_rows, df, nodes, root, level_nodes, pool, lvlVars, jobVars>>

\* flatten_hsn_json_with_inherited raises TypeError: nothing is returned
FlattenRaises ==
    /\ pc = "built"
    /\ TraverseAll(root, <<>>).raised
    /\ pc' = "raised"
    /\ UNCHANGED <<in_rows, df, nodes, root, level_nodes, docs, visited, pool, lvlVars, jobVars>>

LvlIdle ==
    /\ src_df = <<>>
    /\ lvl_df = <<>>
    /\ lvl_pc = "idle"

Init ==
    /\ LvlIdle
    /\ in_rows = <<>>
    /\ df = <<>>
    /\ nodes = <<>>
    /\ root = <<>>
    /\ level_nodes = <<>>
    /\ docs = <<>>
    /\ visited = <<>>
    /\ pc = "build"
    /\ pool \in Pools
    /\ TrkIdle
    /\ MailIdle

Next ==
    \/ \E row \in pool.rows : BuildNodeRow(row)
    \/ \E row \in pool.rows : BuildNoteRow(row)
    \/ BuildKeyError
    \/ BuildReturn
    \/ Flatten
    \/ FlattenRaises

Spec == Init /\ [][Next]_vars

(***************************************************************************)
(* Properties of build_hierarchy and of build-then-flatten, stated over    *)
(* the rows read (in_rows, df) and checked against the forest built.       *)
(***************************************************************************)
RowIdx == 1..Len(df)
NodeIdx == 1..Len(nodes)

\* row r is structural: its remark, trimmed and lower-cased, is not "notes"
StructuralRow(row) ==
    IF "remark" \in DOMAIN row THEN Lower(Strip(PyStr(row.remark))) # S_notes
    ELSE TRUE
Structural(r) == StructuralRow(df[r])
StructIdx == {r \in RowIdx : Structural(r)}

\* the depth of row r: its level when that is a number, else 0
DepthOfRow(row) ==
    IF "level" \in DOMAIN row /\ row.level.t = "num" THEN row.level.v ELSE 0
RowDepth(r) == DepthOfRow(df[r])

\* the k-th structural row is node k (S: the structural rows)
NodeOfRow(S, r) == Cardinality({q \in S : q <= r})
RowOfNode(S, n) == CHOOSE r \in S : NodeOfRow(S, r) = n

RECURSIVE SortedSeq(_)
SortedSeq(T) ==
    IF T = {} THEN <<>>
    ELSE LET m == SetMin(T) IN <<m>> \o SortedSeq(T \ {m})

Range(f) == {f[k] : k \in DOMAIN f}

\* the row whose node row r's node belongs under, from the depths of the
\* structural rows before r: the latest one at the largest depth below r's
ExpectedParentRow(S, r) ==
    IF RowDepth(r) = 0 THEN 0
    ELSE LET E == {q \in S : q < r /\ RowDepth(q) < RowDepth(r)}
         IN  IF E = {} THEN 0
             ELSE LET dmax == SetMax({RowDepth(q) : q \in E})
                  IN  SetMax({q \in E : RowDepth(q) = dmax})

ExpectedParent(S, n) ==
    LET pr == ExpectedParentRow(S, RowOfNode(S, n))
    IN  IF pr = 0 THEN 0 ELSE NodeOfRow(S, pr)

\* the table read is two structural rows with levels 0 and 2
Depths02 ==
    /\ pc = "built"
    /\ Len(df) = 2
    /\ StructIdx = {1, 2}
    /\ "level" \in pool.cols
    /\ df[1].level = Num(0)
    /\ df[2].level = Num(2)

\* C1 (as claimed): for depths [0, 2] the depth-2 node is in the root list and
\* not among the children of the depth-0 node.
C1_Depth2PromotedToRoot ==
    Depths02 => (2 \in Range(root) /\ 2 \notin Range(nodes[1].children))

\* C1 (amended): for depths [0, 2] the depth-2 node is the only child of the
\* depth-0 node and is not in the root list, which holds the depth-0 node only.
C1_Depth2UnderDepth0 ==
    Depths02 => (root = <<1>> /\ nodes[1].children = <<2>> /\ nodes[2].children = <<>>)

C1_Witness == Depths02 /\ nodes[1].children = <<2>>

\* C7: a structural row of depth 0 (or unset level) is appended to the root
\* list; one of depth d # 0 is appended to the children of the latest node at
\* the largest earlier depth below d, or to the root list when there is none.
C7_NearestShallowerAncestor ==
    LET S == StructIdx
        under(p) == {n \in NodeIdx : ExpectedParent(S, n) = p}
    IN  /\ Len(nodes) = Cardinality(S)
        /\ root = SortedSeq(under(0))
        /\ \A p \in NodeIdx : nodes[p].children = SortedSeq(under(p))

\* a forest with an unset-level node in the root list, a deeper node promoted
\* to the root list, and a node attached across a skipped depth
C7_Witness ==
    LET S == StructIdx
    IN  /\ pc = "built"
        /\ pool = StructPool
        /\ \E n \in Range(root) : df[RowOfNode(S, n)].level = NaN
        /\ \E n \in Range(root) : RowDepth(RowOfNode(S, n)) > 0
        /\ \E p \in NodeIdx : \E n \in Range(nodes[p].children) :
                RowDepth(RowOfNode(S, n)) > RowDepth(RowOfNode(S, p)) + 1

\* the structural row whose node a note at row j goes to: the latest earlier
\* one of depth 1, else the latest earlier one of depth 0, else none (0)
NoteOwnerRow(S, j) ==
    LET ones == {q \in S : q < j /\ RowDepth(q) = 1}
        zeros == {q \in S : q < j /\ RowDepth(q) = 0}
    IN  IF ones # {} THEN SetMax(ones)
        ELSE IF zeros # {} THEN SetMax(zeros)
        ELSE 0

\* the trimmed texts of the given note rows, in the order given
RECURSIVE TextsOf(_)
TextsOf(rows) ==
    IF rows = <<>> THEN <<>>
    ELSE (IF "item_description" \notin DOMAIN df[Head(rows)] THEN <<>>
          ELSE IF df[Head(rows)].item_description = NaN THEN <<>>
          ELSE <<Strip(PyStr(df[Head(rows)].item_description))>>)
            \o TextsOf(Tail(rows))

ExpectedNotes(S, n) ==
    TextsOf(SortedSeq({j \in RowIdx \ S : NoteOwnerRow(S, j) = RowOfNode(S, n)}))

\* rows [depth-0 node A, note n1, depth-1 node B, note n2]
NoteScenario ==
    /\ Len(df) = 4
    /\ StructIdx = {1, 3}
    /\ df[1].level = Num(0)
    /\ df[3].level = Num(1)
    /\ "item_description" \in pool.cols
    /\ df[2].item_description # NaN
    /\ df[4].item_description # NaN

\* C8: every node's notes are the texts of the note rows that followed while
\* it was the open depth-1 node, or the open depth-0 node with no depth-1 node
\* open, in row order; other notes are dropped.  For [A, n1, B, n2]: n1 is in
\* A.notes, n2 in B.notes, B is a child of A.
C8_NotesGoToOpenDepth1Else0 ==
    LET S == StructIdx
    IN  /\ \A n \in NodeIdx : nodes[n].notes = ExpectedNotes(S, n)
        /\ NoteScenario =>
            /\ nodes[1].notes = <<Strip(PyStr(df[2].item_description))>>
            /\ nodes[2].notes = <<Strip(PyStr(df[4].item_description))>>
            /\ nodes[1].children = <<2>>

\* the scenario itself, and a node that holds two notes
C8_Witness ==
    /\ pc = "built"
    /\ in_rows = <<R_A, N_1, R_B, N_2>>
    /\ nodes[1].notes = <<<<"n", "1">>>>
    /\ nodes[2].notes = <<<<"n", "2">>>>

\* C9 (as claimed): build-then-flatten of a table with N structural rows
\* yields exactly N flat records.
C9_OneRecordPerStructuralRow ==
    pc \in {"flat", "raised"} => Len(docs) = Cardinality(StructIdx)

DistinctOn(S, f(_)) == \A a, b \in S : a # b => f(a) # f(b)
InputCode(r) == in_rows[r].hs_code
NormalisedCode(r) == RemoveWs(PyStr(in_rows[r].hs_code))
DocIdOf(k) == docs[k].id

\* C10 (as claimed): when the input hs_code values of the structural rows are
\* pairwise distinct, the ids of the flat records are pairwise distinct.
C10_DistinctCodesDistinctIds ==
    (pc = "flat" /\ DistinctOn(StructIdx, InputCode))
        => DistinctOn(1..Len(docs), DocIdOf)

\* C10 (amended): when the hs_code values of the structural rows, converted to
\* str and with all whitespace removed, are pairwise distinct, the ids of the
\* flat records are pairwise distinct.
C10_DistinctNormalisedCodesDistinctIds ==
    (pc = "flat" /\ DistinctOn(StructIdx, NormalisedCode))
        => DistinctOn(1..Len(docs), DocIdOf)

\* a flattened forest with one node under another, whose codes stay distinct
\* after normalisation, one of them written with a space
C10_Witness ==
    /\ pc = "flat"
    /\ Len(docs) >= 2
    /\ DistinctOn(StructIdx, NormalisedCode)
    /\ \E r \in StructIdx : InputCode(r) # Str(NormalisedCode(r))
    /\ \E n \in NodeIdx : nodes[n].children # <<>>

\* the number of places node n occupies: positions of the root list and of
\* every children list that hold n
OccurrencesIn(rt, ns, n) ==
    Cardinality({k \in DOMAIN rt : rt[k] = n})
        + Cardinality({pk \in (DOMAIN ns) \X (DOMAIN ns) :
                          /\ pk[2] \in DOMAIN ns[pk[1]].children
                          /\ ns[pk[1]].children[pk[2]] = n})
Occurrences(n) == OccurrencesIn(root, nodes, n)

\* C11: in the forest built (at return and after every row) the node of every
\* structural row occupies exactly one place, in the root list or in one
\* node's children, and every child's depth is strictly greater than its
\* parent's depth.
C11_EachNodeOnceChildrenDeeper ==
    LET S == StructIdx
    IN  /\ Len(nodes) = Cardinality(S)
        /\ \A n \in NodeIdx : Occurrences(n) = 1
        /\ \A p \in NodeIdx : \A c \in Range(nodes[p].children) :
                RowDepth(RowOfNode(S, c)) > RowDepth(RowOfNode(S, p))

\* a returned forest with two roots, a chain three nodes deep and a node with
\* two children
C11_Witness ==
    /\ pc = "built"
    /\ Len(root) >= 2
    /\ \E p \in NodeIdx : Len(nodes[p].children) >= 2
    /\ \E p \in NodeIdx : \E c \in Range(nodes[p].children) :
            nodes[c].children # <<>>

\* the node whose children hold node n; 0 when n is in the root list
ParentNode(n) ==
    IF \E p \in NodeIdx : n \in Range(nodes[p].children)
    THEN CHOOSE p \in NodeIdx : n \in Range(nodes[p].children)
    ELSE 0

\* the ancestors of node n in the forest, from its root down to its parent
RECURSIVE Chain(_)
Chain(n) ==
    IF ParentNode(n) = 0 THEN <<>> ELSE Append(Chain(ParentNode(n)), ParentNode(n))

\* node a carries the level 0 or 1
LevelIs01(a) == "level" \in DOMAIN nodes[a] /\ nodes[a].level \in {Num(0), Num(1)}

\* the notes of the given nodes, one node after the other
RECURSIVE NotesOfAll(_)
NotesOfAll(ns) ==
    IF ns = <<>> THEN <<>> ELSE nodes[Head(ns)].notes \o NotesOfAll(Tail(ns))

\* rows [A level 0, note x, B level 1, note y, C level 2]
NotesChainScenario == in_rows = <<C_A, N_x, C_B, N_y, C_C>>

\* C12: the notes of every flat record are its node's own notes followed by
\* the notes of each of the node's ancestors that has level 0 or 1, in
\* root-to-parent order, duplicates kept.  For A (level 0, notes [x]) -> B
\* (level 1, notes [y]) -> C (level 2, no notes), C's record has [x, y].
C12_NotesOwnThenInherited ==
    pc = "flat" =>
        /\ Len(visited) = Len(docs)
        /\ \A k \in 1..Len(docs) :
                docs[k].notes =
                    nodes[visited[k]].notes
                        \o NotesOfAll(SelectSeq(Chain(visited[k]), LevelIs01))
        /\ NotesChainScenario => docs[3].notes = << <<"x">>, <<"y">> >>

\* the scenario flattened: C inherits [x, y], B has its own y before A's x
C12_Witness ==
    /\ pc = "flat"
    /\ NotesChainScenario
    /\ visited = <<1, 2, 3>>
    /\ docs[2].notes = << <<"y">>, <<"x">> >>
    /\ docs[3].notes = << <<"x">>, <<"y">> >>

\* the value node n itself holds under key; None when it has no such key
OwnValue(n, key) == IF key \in DOMAIN nodes[n] THEN nodes[n][key] ELSE None

\* v is a non-empty text
NonEmpty(v) == v.t = "str" /\ v.v # <<>>

\* the nearest ancestor of n (parent first, root last) with a non-empty value
\* under key; 0 when there is none
NearestWith(n, key) ==
    LET chain == Chain(n)
        with == {i \in DOMAIN chain : NonEmpty(OwnValue(chain[i], key))}
    IN  IF with = {} THEN 0 ELSE chain[SetMax(with)]

\* the policy of node n as claimed: own non-empty value, else the nearest
\* ancestor's, else unset
ClaimedPolicy(n, key) ==
    IF NonEmpty(OwnValue(n, key)) THEN OwnValue(n, key)
    ELSE IF NearestWith(n, key) # 0 THEN OwnValue(NearestWith(n, key), key)
    ELSE None

\* the same, with the node's own (empty or unset) value as the last resort
OwnElseNearestPolicy(n, key) ==
    IF NonEmpty(OwnValue(n, key)) THEN OwnValue(n, key)
    ELSE IF NearestWith(n, key) # 0 THEN OwnValue(NearestWith(n, key), key)
    ELSE OwnValue(n, key)

\* C13 (as claimed): import_policy and export_policy of every flat record are,
\* each on its own, the node's own *_policy_text when that is non-empty, else
\* the value of the nearest ancestor (parent first, root last) whose
\* *_policy_text is non-empty, else unset.
C13_PolicyOwnElseNearestElseUnset ==
    pc = "flat" =>
        \A k \in 1..Len(docs) :
            /\ docs[k].import_policy = ClaimedPolicy(visited[k], "import_policy_text")
            /\ docs[k].export_policy = ClaimedPolicy(visited[k], "export_policy_text")

\* C13 (amended): import_policy and export_policy of every flat record are,
\* each on its own, the node's own *_policy_text when that is non-empty, else
\* the value of the nearest ancestor (parent first, root last) whose
\* *_policy_text is non-empty, else the node's own value, which is then unset
\* or the empty text.
C13_PolicyOwnElseNearestElseOwn ==
    pc = "flat" =>
        \A k \in 1..Len(docs) :
            /\ docs[k].import_policy =
                    OwnElseNearestPolicy(visited[k], "import_policy_text")
            /\ docs[k].export_policy =
                    OwnElseNearestPolicy(visited[k], "export_policy_text")

\* a chain of three: the nearer of two non-empty ancestors wins, an own
\* non-empty value is kept, an own empty text with no non-empty ancestor
\* stays the empty text, and one field inherits while the other does not
C13_Witness ==
    /\ pc = "flat"
    /\ in_rows = <<P_A, P_B2, P_C>>
    /\ docs[3].import_policy = Str(<<"p">>)
    /\ docs[2].import_policy = Str(<<"p">>)
    /\ docs[1].export_policy = Str(<<>>)
    /\ docs[3].export_policy = None

\* the texts of a non-empty list of str cells, joined left to right by " > "
RECURSIVE Crumbs(_)
Crumbs(cells) ==
    IF Len(cells) = 1 THEN cells[1].v
    ELSE Crumbs(SubSeq(cells, 1, Len(cells) - 1)) \o <<" ", ">", " ">>
            \o cells[Len(cells)].v

\* the item_description of every node on the path from n's root down to n
PathTexts(n) ==
    LET path == Append(Chain(n), n)
    IN  [i \in 1..Len(path) |-> OwnValue(path[i], "item_description")]

\* C14: in every flat record parent_id and parent_text are the hs_code and
\* item_description of the node's immediate parent, both unset for a root
\* node, and breadcrumb is the ' > '-joined item_descriptions of the path
\* from the root down to the node itself.
C14_ParentAndBreadcrumb ==
    pc = "flat" =>
        \A k \in 1..Len(docs) :
            LET n == visited[k]
                p == ParentNode(n)
            IN  /\ docs[k].parent_id = IF p = 0 THEN None ELSE OwnValue(p, "hs_code")
                /\ docs[k].parent_text =
                        IF p = 0 THEN None ELSE OwnValue(p, "item_description")
                /\ docs[k].breadcrumb = Str(Crumbs(PathTexts(n)))

\* a chain of three flattened: C's parent is B, not the root A
C14_Witness ==
    /\ pc = "flat"
    /\ in_rows = <<C_A, C_B, C_C>>
    /\ docs[1].parent_id = None
    /\ docs[1].parent_text = None
    /\ docs[1].breadcrumb = Str(<<"A">>)
    /\ docs[3].parent_id = Str(<<"2">>)
    /\ docs[3].parent_text = Str(<<"B">>)
    /\ docs[3].breadcrumb = Str(<<"A", " ", ">", " ", "B", " ", ">", " ", "C">>)

\* the place of node n in visited
Pos(n) == CHOOSE k \in 1..Len(visited) : visited[k] = n

\* the nodes below node n
Descendants(n) == {d \in NodeIdx : n \in Range(Chain(d))}

\* the nodes of list come in visited in the order of the list
InListOrder(list) ==
    \A i, j \in DOMAIN list : i < j => Pos(list[i]) < Pos(list[j])

\* C15: the flat records are the depth-first pre-order of the forest: one
\* record per node, made from that node; a node's record comes before those
\* of its descendants, which follow it without a gap; roots and siblings come
\* in the order of the root list and of the parent's children list.
C15_RecordsInPreOrder ==
    pc = "flat" =>
        /\ Len(docs) = Len(nodes)
        /\ Len(visited) = Len(nodes)
        /\ Range(visited) = NodeIdx
        /\ \A k \in 1..Len(docs) :
                /\ docs[k].id = OwnValue(visited[k], "hs_code")
                /\ docs[k].text = OwnValue(visited[k], "item_description")
        /\ \A n \in NodeIdx :
                {Pos(d) : d \in Descendants(n)}
                    = (Pos(n) + 1)..(Pos(n) + Cardinality(Descendants(n)))
        /\ InListOrder(root)
        /\ \A p \in NodeIdx : InListOrder(nodes[p].children)

\* a flattened forest whose pre-order is not the order of the rows: rows B
\* (level 1), A (level 0), C (level 2) give B, C under B, then A
C15_Witness ==
    /\ pc = "flat"
    /\ in_rows = <<C_B, C_A, C_C>>
    /\ root = <<1, 2>>
    /\ nodes[1].children = <<3>>
    /\ visited = <<1, 3, 2>>
    /\ docs[2].text = Str(<<"C">>)

\* a step of the row loop: one more row has been read
RowRead == Len(df') = Len(df) + 1

\* C16: the build does not fail on a malformed row sequence.  A note row read
\* when no structural row of depth 0 or 1 came before it leaves the nodes, the
\* root list and the open-ancestor map as they were.  Every structural row,
\* whatever its depth (negative, or with no shallower depth open), adds one
\* node that occupies one place of the forest, and that place is the end of
\* the root list when no earlier structural row has a depth below its own.
\* The only failure of the build is the one of a table without the code column.
C16_MalformedRowsTolerated ==
    [][/\ pc' = "key_error" => "hs_code" \notin pool.cols
       /\ RowRead =>
            LET row == df'[Len(df) + 1]
                new == Len(nodes) + 1
                S == StructIdx
            IN  IF StructuralRow(row)
                THEN /\ Len(nodes') = new
                     /\ OccurrencesIn(root', nodes', new) = 1
                     /\ DepthOfRow(row) \in DOMAIN level_nodes'
                     /\ level_nodes'[DepthOfRow(row)] = new
                     /\ (\A q \in S : RowDepth(q) >= DepthOfRow(row))
                            => root' = Append(root, new)
                ELSE (\A q \in S : RowDepth(q) \notin {0, 1})
                        => /\ nodes' = nodes
                           /\ root' = root
                           /\ level_nodes' = level_nodes
      ]_vars

\* a forest returned for rows [depth 2, note, depth -1]: the note was dropped
\* with depth 2 open, both nodes are in the root list
C16_Witness ==
    /\ pc = "built"
    /\ Len(df) = 3
    /\ StructIdx = {1, 3}
    /\ RowDepth(1) = 2
    /\ RowDepth(3) = -1
    /\ root = <<1, 2>>
    /\ nodes[1].notes = <<>>
    /\ nodes[2].notes = <<>>

\* C17 (as claimed): flattening a forest returned by build_hierarchy never
\* raises: whatever the nodes hold, an unset item_description included, a
\* record is emitted for every node.
C17_FlattenNeverRaises ==
    /\ pc # "raised"
    /\ pc = "flat" => Len(docs) = Len(nodes)

\* C18 (as claimed, build_hierarchy): when build_hierarchy has returned, the
\* caller's table holds the same columns and the same hs_code values as when
\* it was passed in.
C18_BuildLeavesCallerTable ==
    pc \in {"built", "flat", "raised"} =>
        /\ Len(df) = Len(in_rows)
        /\ \A r \in RowIdx :
                /\ DOMAIN df[r] = DOMAIN in_rows[r]
                /\ df[r].hs_code = in_rows[r].hs_code

\* the texts the given note rows contribute as claimed: the trimmed text of
\* each cell that holds a non-empty text, nothing for other cells
RECURSIVE NonEmptyTextsOf(_)
NonEmptyTextsOf(rows) ==
    IF rows = <<>> THEN <<>>
    ELSE (IF "item_description" \in DOMAIN df[Head(rows)]
                /\ NonEmpty(df[Head(rows)].item_description)
          THEN <<Strip(df[Head(rows)].item_description.v)>>
          ELSE <<>>)
            \o NonEmptyTextsOf(Tail(rows))

\* C19 (as claimed): a note row adds a note to its node only when its note
\* text cell holds a non-empty text; an empty text, None or NaN adds nothing.
C19_OnlyNonEmptyTextAppended ==
    LET S == StructIdx
    IN  \A n \in NodeIdx :
            nodes[n].notes =
                NonEmptyTextsOf(SortedSeq({j \in RowIdx \ S :
                                    NoteOwnerRow(S, j) = RowOfNode(S, n)}))

\* C20 (as claimed): the build completes whichever configured column the table
\* lacks: it never stops on a missing column.
C20_MissingColumnsTolerated == pc # "key_error"

\* node p's entry in the open-ancestor map is stale when row r is read: a
\* structural row of a smaller depth than p's was read after p's row, and p's
\* depth was not registered again since (p is still the latest at its depth)
StaleAt(S, p, r) ==
    \E q \in S : /\ RowOfNode(S, p) < q
                 /\ q < r
                 /\ RowDepth(q) < RowDepth(RowOfNode(S, p))

\* C21 (as claimed): no structural row is attached under a node whose entry
\* was stale when the row was read: between the parent's row and the child's
\* row there is no structural row of a smaller depth than the parent's.
C21_StaleEntryNeverParent ==
    LET S == StructIdx
    IN  \A p \in NodeIdx : \A c \in Range(nodes[p].children) :
            ~StaleAt(S, p, RowOfNode(S, c))

\* s is t with something, perhaps nothing, appended
IsPrefix(t, s) == Len(t) <= Len(s) /\ SubSeq(s, 1, Len(t)) = t

\* C22: reading a note row creates no node, leaves the root list, every
\* children list and the open-ancestor map as they were, and changes at most
\* one node, and that one only by appending to its notes.
C22_NoteRowFrame ==
    [][(RowRead /\ ~StructuralRow(df'[Len(df) + 1])) =>
            /\ Len(nodes') = Len(nodes)
            /\ root' = root
            /\ level_nodes' = level_nodes
            /\ \A n \in NodeIdx :
                    /\ nodes'[n] = [nodes[n] EXCEPT !.notes = nodes'[n].notes]
                    /\ IsPrefix(nodes[n].notes, nodes'[n].notes)
            /\ Cardinality({n \in NodeIdx : nodes'[n] # nodes[n]}) <= 1
      ]_vars

\* a note has been appended to one of several nodes, the others left alone
C22_Witness ==
    /\ pc = "build"
    /\ Len(nodes) >= 3
    /\ ~Structural(Len(df))
    /\ \E n \in NodeIdx : /\ nodes[n].notes # <<>>
                          /\ \A o \in NodeIdx \ {n} : nodes[o].notes = <<>>

\* C23 (as claimed): after build and flatten, every note text attached to a
\* node X is among the notes of X's record and of the record of every
\* descendant of X, whatever X's level, unset included.
C23_NotesReachEveryDescendant ==
    pc = "flat" =>
        \A k \in 1..Len(docs) :
            \A X \in {visited[k]} \cup Range(Chain(visited[k])) :
                Range(nodes[X].notes) \subseteq Range(docs[k].notes)

\* C24 (as claimed): the node a note row is attached to is the node created
\* last or one of that node's ancestors in the forest.
C24_NoteOnLatestNodeOrAncestor ==
    [][(RowRead /\ ~StructuralRow(df'[Len(df) + 1])) =>
            \A n \in NodeIdx :
                nodes'[n].notes # nodes[n].notes =>
                    (n = Len(nodes) \/ n \in Range(Chain(Len(nodes))))
      ]_vars

\* C25 (as claimed): the flat records come in the order of the structural
\* rows: record i is the record of the node of the i-th structural row.
C25_RecordsInRowOrder ==
    pc = "flat" =>
        /\ Len(docs) = Cardinality(StructIdx)
        /\ \A i \in 1..Len(docs) :
                /\ visited[i] = i
                /\ docs[i].text = OwnValue(i, "item_description")

(***************************************************************************)
(* The shipment-tracking job (autotracking/cron-schedule.py)               *)
(*                                                                         *)
(* call_vizion_api_for_reference is the scheduled job; poll_vizion_api is  *)
(* the polling function it names.  A run starts either at the job or at a  *)
(* direct call of poll_vizion_api(reference_id).  Sleeps take no state.    *)
(***************************************************************************)
\* max_retries = 10
max_retries == 10

RefIds == {Str(<<"r">>), Str(<<"s">>)}
TrackingInfos == {Str(<<"t">>), Str(<<"u">>)}

\* what requests.get(api_url) can end in: a 200 answer whose JSON holds a
\* reference_id, an empty one or none; another status; an exception
RefResponses ==
    {[kind |-> "ok", reference_id |-> v] : v \in RefIds \cup {None, Str(<<>>)}}
        \cup {[kind |-> k, reference_id |-> None] : k \in {"status", "exception"}}

\* the same for requests.get(poll_url) and tracking_info
PollResponses ==
    {[kind |-> "ok", tracking_info |-> v] : v \in TrackingInfos \cup {None, Str(<<>>)}}
        \cup {[kind |-> k, tracking_info |-> None] : k \in {"status", "exception"}}

\* the record insert_one stores
NewRecord(reference_id) == [reference_id |-> reference_id, tracking_info |-> None]

\* the collection as a run may find it
RECURSIVE SeqsUpTo(_, _)
SeqsUpTo(T, n) ==
    IF n = 0 THEN {<<>>}
    ELSE SeqsUpTo(T, n - 1)
            \cup {Append(q, x) : q \in {q \in SeqsUpTo(T, n - 1) : Len(q) = n - 1}, x \in T}

PriorCollections == SeqsUpTo({NewRecord(id) : id \in RefIds}, MaxStored)

\* collection.update_one({"reference_id": ...}, {"$set": {"tracking_info": ...}}):
\* the first record that matches, none when there is no match
UpdateOne(coll, reference_id, tracking_info) ==
    LET hits == {k \in DOMAIN coll : coll[k].reference_id = reference_id}
    IN  IF hits = {} THEN coll
        ELSE [coll EXCEPT ![SetMin(hits)].tracking_info = tracking_info]

\* get_valid_reference_id: one pass of the while True loop
GetRef(resp) ==
    /\ trk_pc = "get_ref"
    /\ IF resp.kind = "ok" /\ Truthy(resp.reference_id)
       THEN /\ trk_ref' = resp.reference_id
            /\ trk_pc' = "insert"
            /\ UNCHANGED trk_tries
       ELSE /\ trk_tries' = IF trk_tries < MaxRefTries THEN trk_tries + 1 ELSE trk_tries
            /\ UNCHANGED <<trk_ref, trk_pc>>
    /\ UNCHANGED <<trk_retries, trk_requests, collection, mailVars, lvlVars, bldVars>>

\* collection.insert_one({...})
InsertOne ==
    /\ trk_pc = "insert"
    /\ collection' = Append(collection, NewRecord(trk_ref))
    /\ trk_pc' = "call_poll"
    /\ UNCHANGED <<trk_tries, trk_ref, trk_retries, trk_requests, mailVars, lvlVars, bldVars>>

\* poll_vizion_api(reference_id,livex): the name livex is bound nowhere, so
\* evaluating the arguments raises NameError and poll_vizion_api is not entered
CallPoll ==
    /\ trk_pc = "call_poll"
    /\ trk_pc' = "name_error"
    /\ UNCHANGED <<trk_tries, trk_ref, trk_retries, trk_requests, collection, mailVars,
                   lvlVars, bldVars>>

\* poll_vizion_api: one pass of the while retries < max_retries loop
Poll(resp) ==
    /\ trk_pc = "poll"
    /\ trk_retries < max_retries
    /\ trk_requests' = trk_requests + 1
    /\ IF resp.kind = "ok" /\ Truthy(resp.tracking_info)
       THEN /\ collection' = UpdateOne(collection, trk_ref, resp.tracking_info)
            /\ trk_pc' = "poll_done"
            /\ UNCHANGED trk_retries
       ELSE /\ trk_retries' = trk_retries + 1
            /\ UNCHANGED <<collection, trk_pc>>
    /\ UNCHANGED <<trk_tries, trk_ref, mailVars, lvlVars, bldVars>>

\* poll_vizion_api: the loop ends with max retries reached
PollGiveUp ==
    /\ trk_pc = "poll"
    /\ trk_retries >= max_retries
    /\ trk_pc' = "poll_giveup"
    /\ UNCHANGED <<trk_tries, trk_ref, trk_retries, trk_requests, collection, mailVars,
                   lvlVars, bldVars>>

InitTrack ==
    /\ LvlIdle
    /\ BldIdle
    /\ MailIdle
    /\ trk_tries = 0
    /\ trk_retries = 0
    /\ trk_requests = 0
    /\ collection \in PriorCollections
    /\ \/ trk_pc = "get_ref" /\ trk_ref = None
       \/ trk_pc = "poll" /\ trk_ref \in RefIds

NextTrack ==
    \/ \E resp \in RefResponses : GetRef(resp)
    \/ InsertOne
    \/ CallPoll
    \/ \E resp \in PollResponses : Poll(resp)
    \/ PollGiveUp

SpecTrack == InitTrack /\ [][NextTrack]_vars

\* C26 (as claimed): a job that has inserted the record for its reference ID
\* goes on to poll for it and does not stop before; the polling makes at most
\* 10 requests; it ends on the request that brought non-empty tracking info,
\* having made no request after it.
C26_JobInsertsThenPolls ==
    /\ trk_pc # "name_error"
    /\ trk_requests <= max_retries
    /\ trk_pc \in {"call_poll", "name_error"} =>
            \E k \in DOMAIN collection : collection[k] = NewRecord(trk_ref)
    /\ trk_pc = "poll_done" => trk_requests = trk_retries + 1
    /\ trk_pc = "poll_giveup" => trk_requests = max_retries

(***************************************************************************)
(* The email listener's main loop (email_agent/scripts/email_listner.py)   *)
(*                                                                         *)
(* A message is what the loop reads of it: its "id" (None when the key is  *)
(* missing) and whether "from" is a dict or null.  The mailbox is the set  *)
(* of ids marked as read; a fetch returns unread messages only.            *)
(***************************************************************************)
Messages ==
    {[id |-> Str(<<"a">>), from |-> "dict"],
     [id |-> Str(<<"b">>), from |-> "dict"],
     [id |-> Str(<<"c">>), from |-> "null"],
     [id |-> Str(<<>>), from |-> "dict"],
     [id |-> None, from |-> "dict"]}

\* "$filter": "isRead eq false"
Unread == {msg \in Messages : msg.id \notin mail_read}

\* if message_id:
ShouldMark(message) == Truthy(message.id)

\* message.get("from", {}).get("emailAddress", {}): AttributeError on null
HandleRaises(message) == message.from = "null"

\* the except clauses: print, await asyncio.sleep(60), next pass of the loop
OnError_exit == "exit"

OnError == "sleep_error"

\* adapter = get_graph_request_adapter(), or return on ValueError
MailStart(configured) ==
    /\ mail_pc = "start"
    /\ mail_pc' = IF configured THEN "fetch" ELSE "exit"
    /\ UNCHANGED <<mail_msgs, mail_i, mail_read, mail_polls, trkVars, lvlVars, bldVars>>

CountPoll == IF mail_polls < MaxPolls THEN mail_polls + 1 ELSE mail_polls

\* unread_messages = await fetch_unread_messages(...) returns
MailFetch(msgs) ==
    /\ mail_pc = "fetch"
    /\ mail_polls' = CountPoll
    /\ mail_msgs' = msgs
    /\ mail_i' = IF msgs = <<>> THEN 0 ELSE 1
    /\ mail_pc' = IF msgs = <<>> THEN "sleep" ELSE "handle"
    /\ UNCHANGED <<mail_read, trkVars, lvlVars, bldVars>>

\* fetch_unread_messages raises (ValueError, httpx error, any Exception)
MailFetchRaises ==
    /\ mail_pc = "fetch"
    /\ mail_polls' = CountPoll
    /\ mail_pc' = OnError
    /\ UNCHANGED <<mail_msgs, mail_i, mail_read, trkVars, lvlVars, bldVars>>

\* one pass of the for loop that ends normally; marked: the PATCH was sent
MailHandle ==
    /\ mail_pc = "handle"
    /\ ~HandleRaises(mail_msgs[mail_i])
    /\ mail_read' = IF ShouldMark(mail_msgs[mail_i])
                    THEN mail_read \cup {mail_msgs[mail_i].id}
                    ELSE mail_read
    /\ IF mail_i = Len(mail_msgs)
       THEN mail_pc' = "sleep" /\ UNCHANGED mail_i
       ELSE mail_i' = mail_i + 1 /\ UNCHANGED mail_pc
    /\ UNCHANGED <<mail_msgs, mail_polls, trkVars, lvlVars, bldVars>>

\* one pass of the for loop that raises: reading the sender of a message
\* whose "from" is null, or mark_message_as_read
MailHandleRaises ==
    /\ mail_pc = "handle"
    /\ HandleRaises(mail_msgs[mail_i]) \/ ShouldMark(mail_msgs[mail_i])
    /\ mail_pc' = OnError
    /\ UNCHANGED <<mail_msgs, mail_i, mail_read, mail_polls, trkVars, lvlVars, bldVars>>

\* await asyncio.sleep(POLL_INTERVAL) returns
MailSleep ==
    /\ mail_pc = "sleep"
    /\ mail_pc' = "fetch"
    /\ UNCHANGED <<mail_msgs, mail_i, mail_read, mail_polls, trkVars, lvlVars, bldVars>>

\* await asyncio.sleep(60) returns
MailSleepError ==
    /\ mail_pc = "sleep_error"
    /\ mail_pc' = "fetch"
    /\ UNCHANGED <<mail_msgs, mail_i, mail_read, mail_polls, trkVars, lvlVars, bldVars>>

InitMail ==
    /\ LvlIdle
    /\ BldIdle
    /\ TrkIdle
    /\ mail_pc = "start"
    /\ mail_msgs = <<>>
    /\ mail_i = 0
    /\ mail_read = {}
    /\ mail_polls = 0

NextMail ==
    \/ \E configured \in BOOLEAN : MailStart(configured)
    \/ \E msgs \in SeqsUpTo(Unread, MaxMsgs) : MailFetch(msgs)
    \/ MailFetchRaises
    \/ MailHandle
    \/ MailHandleRaises
    \/ MailSleep
    \/ MailSleepError

\* the event loop keeps running the coroutine: a step that can be taken is taken
SpecMail == InitMail /\ [][NextMail]_vars /\ WF_vars(NextMail)

\* C27: once the adapter is initialised the loop does not end: the listener
\* exits only from the start, on a configuration error; an error raised while
\* fetching or handling a message leads to the wait after an error, and from
\* that wait the loop always goes on to the next fetch; and when a poll ends
\* without an error (the loop is at its regular wait) every message fetched in
\* it that has an id has been marked as read.
C27_ErrorsNeverEndLoop ==
    /\ [][/\ mail_pc' = "exit" => mail_pc = "start"
          /\ mail_pc = "sleep_error" => mail_pc' = "fetch"
          /\ (mail_pc \in {"fetch", "handle"} /\ mail_pc' \notin {"handle", "sleep"})
                => mail_pc' = "sleep_error"
         ]_vars
    /\ [](mail_pc = "sleep" =>
            \A k \in DOMAIN mail_msgs :
                (mail_msgs[k].id # None /\ mail_msgs[k].id # Str(<<>>))
                    => mail_msgs[k].id \in mail_read)
    /\ (mail_pc = "sleep_error") ~> (mail_pc = "fetch")

\* the loop waits after an error raised on the second message of a later
\* poll, the first message of that poll having been marked
C27_Witness ==
    /\ mail_pc = "sleep_error"
    /\ mail_polls >= 2
    /\ mail_i = 2
    /\ mail_msgs[1].id \in mail_read
    /\ Cardinality(mail_read) >= 2

====
